---------------------------- MODULE Spec2Model ----------------------------
(***************************************************************************)
(* A model of the TTP229 two-wire serial touch sensor driver (ttp229.py). *)
(*                                                                         *)
(* The driver object holds a two-word buffer (_data[0] the current sample, *)
(* _data[1] the previous sample), the channel count derived from the mode, *)
(* the clock polarity flag and the two optional handlers.  update() takes  *)
(* one sample, either by clocking the device itself (digitalio) or by      *)
(* draining one word from the PIO state machine's RX FIFO (rp2pio), and    *)
(* then runs the edge detector.                                            *)
(*                                                                         *)
(* Every driver operation is one action.  What an operation did on its     *)
(* collaborators is recorded in observation variables that describe the    *)
(* most recent event only: entry (_data as the event found it), ret        *)
(* (how update ended), calls (the handler invocations, in order) and trace *)
(* (the operations on the clock line, the data line and the state machine, *)
(* in order).  Each handler invocation carries _data as the handler finds  *)
(* it.  polled tells whether any update() has returned True yet.           *)
(* lastCall keeps, per channel, the kind of the last invocation; it is     *)
(* kept by SpecSteady, the host of examples/ttp229_simpletest.py that sets *)
(* both handlers once and then only polls.                                 *)
(***************************************************************************)
EXTENDS Naturals, Sequences, FiniteSets

VARIABLES
    rp2pio,      \* "rp2pio" in globals(): the PIO backend is in use
    mode,        \* self._mode
    count,       \* self._count
    invert_clk,  \* self._invert_clk
    data,        \* self._data, array.array("H", [cur, prev]); data[1] is _data[0]
    on_press,    \* self.on_press: None or a handler
    on_release,  \* self.on_release: None or a handler
    scl,         \* level of the clock line
    fifo,        \* words waiting in the state machine's RX FIFO, oldest first
    deinited,    \* deinit() has been called
    entry,       \* _data as the most recent event found it
    last,        \* the most recent event
    ret,         \* how the most recent update() ended
    calls,       \* handler invocations of the most recent update(), in order
    trace,       \* line / state machine operations of the most recent event
    lastCall,    \* per channel, the kind of the last handler invocation
    polled       \* some update() has returned True

vars == <<rp2pio, mode, count, invert_clk, data, on_press, on_release, scl,
          fifo, deinited, entry, last, ret, calls, trace, lastCall, polled>>

config == <<rp2pio, mode, count, invert_clk>>

-----------------------------------------------------------------------------
(* Bounds and input sets *)

\* Most words the state machine is let to queue before the host drains one.
MaxPending == 2

\* Clock pulse indices at which the data line may read high.
SdoKeys == {0, 7, 15}

\* What the data line may present to the state machine during one word: the
\* sets of pulse indices at which it is high.
PioLines == {{}, {0, 7}, {7, 8}}

\* How far past the last channel the accessor is asked: indices up to
\* count + MaxWrap.
MaxWrap == 17

\* Bit indices at which an invoked handler may raise.
FailKeys == {0, 7}

\* The choices of update() for where a handler raises: nowhere, or at one index.
Failings == {{}} \cup {{k} : k \in FailKeys}

-----------------------------------------------------------------------------
(* Mode *)

KEY_8 == 0

KEY_16 == 1

None == "None"

Handler == "handler"

callable(h) == h # None

\* array.array("H"): unsigned 16-bit items
WordMod == 65536

\* 1 << i
Shl1(i) == 2 ^ i

\* w & (1 << i): zero or 1 << i
AndBit(w, i) == ((w \div Shl1(i)) % 2) * Shl1(i)

\* w | (1 << i)
OrBit(w, i) == IF AndBit(w, i) # 0 THEN w ELSE w + Shl1(i)


-----------------------------------------------------------------------------
(* Collaborators: the digital lines and the state machine *)

Level(b) == IF b THEN 1 ELSE 0

\* One operation on a collaborator, as it appears in trace.
Ev(o, v) == [op |-> o, val |-> v]

SclWrite(b) == Ev("scl", Level(b))

SdoRead(b) == Ev("sdo", Level(b))

\* self._scl.value = self._invert_clk
IdleLevel == invert_clk

\* ActiveLevel with the "not" left out.
ActiveLevelStuck == invert_clk

\* self._scl.value = not self._invert_clk, inside the loop
ActiveLevel == ~invert_clk

\* FinalLevel restoring the idle level.
FinalLevelIdle == invert_clk

\* self._scl.value = not self._invert_clk, after the loop
FinalLevel == ~invert_clk

\* clk_off, the level the PIO program sets first and after each pulse
clk_off == IF invert_clk THEN 1 ELSE 0

\* clk_on, the level the PIO program sets at the start of each pulse
clk_on == IF invert_clk THEN 0 ELSE 0

\* clk_cnt, the loop counter the PIO program loads into x
clk_cnt == count - 1

-----------------------------------------------------------------------------
(* Hardware-assisted acquisition: the PIO program read_ttp of __init__ *)

\* "in pins, 1" with the state machine's default in_shift_right: the input
\* shift register moves right by one and the sampled bit enters at its top.
\* isr is the upper half-word of the 32-bit register; with at most 16 shifts
\* between two pushes nothing reaches the lower half.
InPins(isr, high) == (isr \div 2) + Level(high) * (2 ^ 15)

\* One pass of "bitloop": set pins clk_on, set pins clk_off, in pins.
PioPulse(high) == <<Ev("scl", clk_on), Ev("scl", clk_off), Ev("sdo", Level(high))>>

\* "bitloop" with x in the scratch register, i pulses done, isr assembled and
\* tr performed so far; "jmp x-- bitloop" leaves the loop when x is 0.
RECURSIVE BitLoop(_, _, _, _, _)
BitLoop(x, i, isr, tr, line) ==
    LET isr2 == InPins(isr, i \in line)
        tr2 == tr \o PioPulse(i \in line)
    IN  IF x = 0
        THEN [isr |-> isr2, trace |-> tr2]
        ELSE BitLoop(x - 1, i + 1, isr2, tr2, line)

\* One turn of the program from .wrap_target to "push": the pin operations
\* and the pushed word as readinto() delivers it to an array of "H" items,
\* which is the upper half-word when in_shift_right is set.
ReadTtp(line) ==
    LET loop == BitLoop(clk_cnt, 0, 0, <<>>, line)
    IN  [word |-> loop.isr % WordMod, trace |-> loop.trace]

-----------------------------------------------------------------------------
(* Bit-bang acquisition: update(), the digitalio branch *)

\* if self._sdo.value: self._data[0] |= 1 << i
ReadBit(w, i, high) == IF high THEN OrBit(w, i) % WordMod ELSE w

\* One pass of the loop body for clock pulse i.
Pulse(i, high) == <<SclWrite(ActiveLevel), SdoRead(high), SclWrite(IdleLevel)>>

\* The loop "for i in range(self._count)", from pulse i on, with w assembled
\* and tr performed so far.  line is the set of pulse indices at which the
\* data line reads high.
RECURSIVE ClockLoop(_, _, _, _)
ClockLoop(i, w, tr, line) ==
    IF i >= count
    THEN [word |-> w, trace |-> tr]
    ELSE ClockLoop(i + 1, ReadBit(w, i, i \in line), tr \o Pulse(i, i \in line), line)

\* BitBang without "self._data[0] = 0".
BitBangNoClear(cur, line) ==
    LET loop == ClockLoop(0, cur, <<SclWrite(IdleLevel)>>, line)
    IN  [word |-> loop.word, trace |-> loop.trace \o <<SclWrite(FinalLevel)>>]

\* The whole digitalio branch: clear _data[0], idle, loop, final level.
\* cur is _data[0] on entry.
BitBang(cur, line) ==
    LET loop == ClockLoop(0, 0, <<SclWrite(IdleLevel)>>, line)
    IN  [word |-> loop.word, trace |-> loop.trace \o <<SclWrite(FinalLevel)>>]

\* The level of the clock line after the first k operations of tr, lvl being
\* its level before them: the value of the last write among them.
RECURSIVE LineAfter(_, _, _)
LineAfter(tr, k, lvl) ==
    IF k = 0 THEN lvl
    ELSE IF tr[k].op = "scl" THEN tr[k].val = 1
    ELSE LineAfter(tr, k - 1, lvl)

-----------------------------------------------------------------------------
(* Edge detector / dispatcher: update(), the second loop *)

NoCall == "none"

\* Callback with the two handlers taken for each other.
CallbackSwapped(cur, prev, i) ==
    LET value == AndBit(cur, i)
    IN  IF value # AndBit(prev, i)
        THEN IF value # 0 /\ callable(on_release) THEN "release"
             ELSE IF value = 0 /\ callable(on_press) THEN "press"
             ELSE NoCall
        ELSE NoCall

\* Callback with the release branch not asking whether a handler is set.
CallbackUnguarded(cur, prev, i) ==
    LET value == AndBit(cur, i)
    IN  IF value # AndBit(prev, i)
        THEN IF value # 0 /\ callable(on_press) THEN "press"
             ELSE IF value = 0 THEN "release"
             ELSE NoCall
        ELSE NoCall

\* The handler update() invokes for bit i of cur against prev, if any.
Callback(cur, prev, i) ==
    LET value == AndBit(cur, i)
    IN  IF value # AndBit(prev, i)
        THEN IF value # 0 /\ callable(on_press) THEN "press"
             ELSE IF value = 0 /\ callable(on_release) THEN "release"
             ELSE NoCall
        ELSE NoCall

\* Seen with the new sample stored only after the dispatch loop.
SeenLate(cur, prev) == <<prev, prev>>

\* _data as a handler invoked from the dispatch loop finds it: _data[0] has
\* been assigned before the loop, _data[1] is assigned after it.
Seen(cur, prev) == <<cur, prev>>

\* One handler invocation: which handler, its argument, _data as it finds
\* it, and whether it raises.
Call(kind, i, seen, raises) ==
    [kind |-> kind, index |-> i, seen |-> seen, raised |-> raises]

\* The index the dispatch loop visits after i.
NextIndex(i) == i + 1

\* Dispatch going on with the next index after a handler raised.
RECURSIVE DispatchOn(_, _, _, _)
DispatchOn(cur, prev, i, failing) ==
    IF i >= count
    THEN <<>>
    ELSE LET c == Callback(cur, prev, i)
         IN  IF c = NoCall THEN DispatchOn(cur, prev, NextIndex(i), failing)
             ELSE <<Call(c, i, Seen(cur, prev), i \in failing)>>
                      \o DispatchOn(cur, prev, NextIndex(i), failing)

\* The handler invocations of "for i in range(self._count)" from index i on.
\* failing is the set of indices at which the invoked handler raises; the
\* exception leaves the loop and update().
RECURSIVE Dispatch(_, _, _, _)
Dispatch(cur, prev, i, failing) ==
    IF i >= count
    THEN <<>>
    ELSE LET c == Callback(cur, prev, i)
         IN  IF c = NoCall THEN Dispatch(cur, prev, NextIndex(i), failing)
             ELSE IF i \in failing THEN <<Call(c, i, Seen(cur, prev), TRUE)>>
             ELSE <<Call(c, i, Seen(cur, prev), FALSE)>>
                      \o Dispatch(cur, prev, NextIndex(i), failing)

\* A handler raised during the dispatch that made the invocations cs.
Raised(cs, failing) == \E k \in 1..Len(cs) : cs[k].index \in failing

\* Returned with the return statement left out.
ReturnedNone(raised) == IF raised THEN "raised" ELSE "none"

\* How update() ends once it has a sample: "return True", or the exception.
Returned(raised) == IF raised THEN "raised" ELSE "true"

\* StorePrevious without the assignment.
StorePreviousNever(cur, prev, raised) == prev

\* StorePrevious with the assignment made even when a handler raised.
StorePreviousAlways(cur, prev, raised) == cur

\* self._data[1] = self._data[0], reached only when no handler raised
StorePrevious(cur, prev, raised) == IF raised THEN prev ELSE cur

\* The tail of update() shared by both backends, given the fresh word.
Detect(word, failing) ==
    \E cs \in {Dispatch(word, data[2], 0, failing)} :
        /\ calls' = cs
        /\ data' = <<word, StorePrevious(word, data[2], Raised(cs, failing))>>
        /\ ret' = Returned(Raised(cs, failing))

-----------------------------------------------------------------------------
(* Operations *)

\* The mode of a driver constructed without a mode argument.
DefaultMode == KEY_16

\* CountOf ignoring the mode.
CountOfFixed(m) == (KEY_16 + 1) * 8

\* self._count = (mode + 1) * 8
CountOf(m) == (m + 1) * 8

\* No handler has been invoked for any channel.
NoCalls == [i \in 0..15 |-> NoCall]

Init ==
    /\ rp2pio \in BOOLEAN
    /\ mode \in {KEY_8, KEY_16}
    /\ count = CountOf(mode)
    /\ invert_clk \in BOOLEAN
    /\ data = <<0, 0>>
    /\ on_press = None
    /\ on_release = None
    /\ scl = IF rp2pio THEN clk_off = 1 ELSE FALSE
    /\ fifo = <<>>
    /\ deinited = FALSE
    /\ entry = <<0, 0>>
    /\ last = "init"
    /\ ret = "none"
    /\ calls = <<>>
    /\ trace = <<>>
    /\ lastCall = NoCalls
    /\ polled = FALSE

\* The host assigns ttp.on_press.
SetOnPress ==
    /\ \E h \in {None, Handler} : on_press' = h
    /\ last' = "set"
    /\ entry' = data
    /\ ret' = "none"
    /\ calls' = <<>>
    /\ trace' = <<>>
    /\ UNCHANGED <<config, data, on_release, scl, fifo, deinited, lastCall, polled>>

\* The host assigns ttp.on_release.
SetOnRelease ==
    /\ \E h \in {None, Handler} : on_release' = h
    /\ last' = "set"
    /\ entry' = data
    /\ ret' = "none"
    /\ calls' = <<>>
    /\ trace' = <<>>
    /\ UNCHANGED <<config, data, on_press, scl, fifo, deinited, lastCall, polled>>

\* The state machine finishes a word and pushes it ("push" of the program).
PioPush ==
    /\ rp2pio
    /\ ~deinited
    /\ Len(fifo) < MaxPending
    /\ \E line \in PioLines :
         \E w \in {ReadTtp(line)} :
           /\ fifo' = Append(fifo, w.word)
           /\ trace' = w.trace
           /\ scl' = LineAfter(w.trace, Len(w.trace), scl)
    /\ last' = "push"
    /\ entry' = data
    /\ ret' = "none"
    /\ calls' = <<>>
    /\ UNCHANGED <<config, data, on_press, on_release, deinited, lastCall, polled>>

\* NoneWaiting off by one.
NoneWaitingOffByOne(n) == n <= 1

\* self._piosm.in_waiting <= 0
NoneWaiting(n) == n <= 0

\* EarlyReturnData with _data[0] cleared before the check.
EarlyReturnCleared(d) == <<0, d[2]>>

\* _data when update() returns False: the early return touches nothing.
EarlyReturnData(d) == d

\* update() with the rp2pio backend.
UpdatePio(failing) ==
    /\ rp2pio
    /\ ~deinited
    /\ IF NoneWaiting(Len(fifo))
       THEN /\ ret' = "false"
            /\ calls' = <<>>
            /\ trace' = <<Ev("in_waiting", Len(fifo))>>
            /\ data' = EarlyReturnData(data)
            /\ UNCHANGED fifo
       ELSE /\ trace' = <<Ev("in_waiting", Len(fifo)), Ev("readinto", Head(fifo))>>
            /\ fifo' = Tail(fifo)
            /\ Detect(Head(fifo) % WordMod, failing)
    /\ UNCHANGED scl

\* update() with the digitalio backend.
UpdateBitBang(line, failing) ==
    /\ ~rp2pio
    /\ ~deinited
    /\ \E bb \in {BitBang(data[1], line)} :
           /\ trace' = bb.trace
           /\ scl' = LineAfter(bb.trace, Len(bb.trace), scl)
           /\ Detect(bb.word, failing)
    /\ UNCHANGED fifo

\* update() after deinit(): the first operation on a released collaborator
\* raises; the digitalio branch has cleared _data[0] by then.
UpdateReleased ==
    /\ deinited
    /\ IF rp2pio
       THEN /\ trace' = <<Ev("in_waiting", 0)>>
            /\ UNCHANGED data
       ELSE /\ trace' = <<SclWrite(IdleLevel)>>
            /\ data' = <<0, data[2]>>
    /\ ret' = "raised"
    /\ calls' = <<>>
    /\ UNCHANGED <<scl, fifo>>

\* update() of a host whose handlers raise at one of the choices failings.
UpdateCall(failings) ==
    /\ \/ \E failing \in failings : UpdatePio(failing)
       \/ \E line \in SUBSET SdoKeys, failing \in failings :
             UpdateBitBang(line, failing)
       \/ UpdateReleased
    /\ last' = "update"
    /\ entry' = data
    /\ polled' = (polled \/ ret' = "true")
    /\ UNCHANGED <<config, on_press, on_release, deinited>>

Update ==
    /\ UpdateCall(Failings)
    /\ UNCHANGED lastCall

\* deinit()
Deinit ==
    /\ deinited' = TRUE
    /\ trace' = IF rp2pio THEN <<Ev("piosm_deinit", 0)>>
                ELSE <<Ev("sdo_deinit", 0), Ev("scl_deinit", 0)>>
    /\ fifo' = <<>>
    /\ last' = "deinit"
    /\ entry' = data
    /\ ret' = "none"
    /\ calls' = <<>>
    /\ UNCHANGED <<config, data, on_press, on_release, scl, lastCall, polled>>

\* The data property: the current sample.
DataProperty == data[1]

\* GetItemIndex without the reduction modulo the channel count.
GetItemIndexNoWrap(index) == index

\* index % self._count
GetItemIndex(index) == index % count

\* __getitem__: bool(self._data[0] & (1 << (index % self._count)))
GetItem(index) == AndBit(data[1], GetItemIndex(index)) # 0

\* __len__
LenOp == count

Next == SetOnPress \/ SetOnRelease \/ PioPush \/ Update \/ Deinit

Spec == Init /\ [][Next]_vars

-----------------------------------------------------------------------------
(* The host of examples/ttp229_simpletest.py: it constructs the driver,    *)
(* assigns both handlers, and then calls update() for ever.  Its handlers  *)
(* print and return.                                                       *)

\* lc after the invocations cs of one update(): every index invoked in cs
\* has the kind it was invoked with.
Track(lc, cs) ==
    [i \in DOMAIN lc |->
        IF \E k \in 1..Len(cs) : cs[k].index = i
        THEN cs[CHOOSE k \in 1..Len(cs) : cs[k].index = i].kind
        ELSE lc[i]]

\* ttp = ttp229.TTP229(...); ttp.on_press = ...; ttp.on_release = ...
SteadyInit ==
    /\ rp2pio \in BOOLEAN
    /\ mode \in {KEY_8, KEY_16}
    /\ count = CountOf(mode)
    /\ invert_clk \in BOOLEAN
    /\ data = <<0, 0>>
    /\ on_press = Handler
    /\ on_release = Handler
    /\ scl = IF rp2pio THEN clk_off = 1 ELSE FALSE
    /\ fifo = <<>>
    /\ deinited = FALSE
    /\ entry = <<0, 0>>
    /\ last = "set"
    /\ ret = "none"
    /\ calls = <<>>
    /\ trace = <<>>
    /\ lastCall = NoCalls
    /\ polled = FALSE

\* ttp.update() inside "while True", no handler raising
SteadyUpdate ==
    /\ UpdateCall({{}})
    /\ lastCall' = Track(lastCall, calls')

NextSteady == SteadyUpdate \/ PioPush

SpecSteady == SteadyInit /\ [][NextSteady]_vars

-----------------------------------------------------------------------------
(* Vocabulary of the properties *)

\* Bit i of the word w.
Bit(w, i) == (w \div (2 ^ i)) % 2

\* Channels whose bit goes from 0 in prev to 1 in cur.
Pressed(cur, prev) == {i \in 0..(count - 1) : Bit(prev, i) = 0 /\ Bit(cur, i) = 1}

\* Channels whose bit goes from 1 in prev to 0 in cur.
Released(cur, prev) == {i \in 0..(count - 1) : Bit(prev, i) = 1 /\ Bit(cur, i) = 0}

\* The indices of the invocations of one kind in cs.
Indices(cs, kind) == {cs[k].index : k \in {j \in 1..Len(cs) : cs[j].kind = kind}}

\* The invocations cs come in strictly increasing index order.
Increasing(cs) == \A j, k \in 1..Len(cs) : j < k => cs[j].index < cs[k].index

\* The values read from the data line in tr, in order.
Reads(tr) == SelectSeq(tr, LAMBDA e : e.op = "sdo")

\* The word whose bit k is the k-th value read from the data line in tr.
RECURSIVE WordOfReads(_, _)
WordOfReads(rs, k) ==
    IF rs = <<>> THEN 0 ELSE Head(rs).val * (2 ^ k) + WordOfReads(Tail(rs), k + 1)

\* tr holds the acquisition of a fresh sample.
Fresh(tr) ==
    \/ \E k \in 1..Len(tr) : tr[k].op = "readinto"
    \/ \E k \in 1..Len(tr) : tr[k].op = "sdo"

\* The pulse indices at which the data line was read high in tr.
HighReads(tr) == {k \in 0..(Len(Reads(tr)) - 1) : Reads(tr)[k + 1].val = 1}

\* This step is a call of update().
PollStep == last' = "update"

\* The most recent event was a call of update() that returned True.
Polled == last = "update" /\ ret = "true"

-----------------------------------------------------------------------------
(* C1: with both handlers set, an update() that returns True invokes       *)
(* exactly one handler per bit index below count at which the new current  *)
(* sample differs from the previous sample, none for an equal bit, in      *)
(* strictly increasing index order: on_press(i) when the new bit is 1,     *)
(* on_release(i) when it is 0.                                             *)
C1_ExactDispatch ==
    [][(PollStep /\ ret' = "true" /\ callable(on_press) /\ callable(on_release)) =>
         /\ Increasing(calls')
         /\ Indices(calls', "press") = Pressed(data'[1], data[2])
         /\ Indices(calls', "release") = Released(data'[1], data[2])
         /\ \A k \in 1..Len(calls') : calls'[k].kind \in {"press", "release"}]_vars

\* A returned poll with both handlers set that delivered a release and then a
\* press, while another bit stayed set.
C1_Witness ==
    /\ Polled
    /\ callable(on_press) /\ callable(on_release)
    /\ Len(calls) = 2
    /\ calls[1].kind = "release" /\ calls[2].kind = "press"
    /\ Pressed(data[1], entry[2]) \cup Released(data[1], entry[2]) # 0..(count - 1)
    /\ \E i \in 0..(count - 1) : Bit(data[1], i) = 1 /\ Bit(entry[2], i) = 1

(* C2: a handler that is unset is never invoked; an update() that obtained *)
(* a sample with a handler unset returns True unless an invoked handler    *)
(* raised, and when it returns True it has invoked the handler that is set *)
(* exactly once per differing bit of its kind, in increasing index order,  *)
(* and has set the previous sample to the current one.  With both unset it *)
(* invokes nothing and returns True.                                       *)
C2_UnsetHandlers ==
    [][(PollStep /\ Fresh(trace') /\ ~(callable(on_press) /\ callable(on_release))) =>
         /\ ret' \in {"true", "raised"}
         /\ ret' = "raised" => calls' # <<>>
         /\ ~callable(on_press) => Indices(calls', "press") = {}
         /\ ~callable(on_release) => Indices(calls', "release") = {}
         /\ ret' = "true" =>
              /\ Increasing(calls')
              /\ Indices(calls', "press") =
                   IF callable(on_press) THEN Pressed(data'[1], data[2]) ELSE {}
              /\ Indices(calls', "release") =
                   IF callable(on_release) THEN Released(data'[1], data[2]) ELSE {}
              /\ data'[2] = data'[1]
         /\ (~callable(on_press) /\ ~callable(on_release)) =>
              (calls' = <<>> /\ ret' = "true")]_vars

\* A returned poll with on_press unset in which a bit went up, unreported, and
\* two bits went down, both reported.
C2_Witness ==
    /\ Polled
    /\ ~callable(on_press) /\ callable(on_release)
    /\ Pressed(data[1], entry[2]) # {}
    /\ Len(calls) = 2
    /\ data[2] = data[1]

C4_PreviousIsLastGood ==
    /\ data[2] = 0
    /\ [][IF PollStep /\ ret' = "true"
          THEN /\ data'[2] = data'[1]
               /\ IF rp2pio
                  THEN data'[2] = Head(fifo) % WordMod
                  ELSE /\ Len(Reads(trace')) = count
                       /\ data'[2] = WordOfReads(Reads(trace'), 0)
          ELSE data'[2] = data[2]]_vars

\* A poll that ended by a handler raising: the current sample is new, the
\* previous sample is still the non-zero one of the last returned poll.
C4_Witness ==
    /\ last = "update" /\ ret = "raised" /\ ~deinited
    /\ data[2] # 0
    /\ data[1] # data[2]
    /\ data[2] = entry[2]

(* C5: with rp2pio, an update() made while no word is pending returns       *)
(* False, takes nothing from the FIFO, leaves both samples as they were (the *)
(* data property reads the same) and invokes no handler.                    *)
C5_NothingPending ==
    [][(PollStep /\ rp2pio /\ ~deinited /\ Len(fifo) = 0) =>
         /\ ret' = "false"
         /\ fifo' = fifo
         /\ data' = data
         /\ DataProperty' = DataProperty
         /\ calls' = <<>>
         /\ \A k \in 1..Len(trace') : trace'[k].op # "readinto"]_vars

\* A poll that returned False while the samples held a non-zero value.
C5_Witness ==
    /\ last = "update" /\ ret = "false" /\ rp2pio
    /\ callable(on_press) /\ callable(on_release)
    /\ DataProperty # 0
    /\ entry = data

(* C6, as claimed: with rp2pio, an update() made while n >= 1 words are     *)
(* pending takes exactly the oldest word, stores it as the current sample,  *)
(* runs the edge detector and returns True, leaving n - 1 pending; a poll   *)
(* takes a word exactly when it returns True.                               *)
C6_AsClaimed ==
    [][(PollStep /\ rp2pio /\ ~deinited) =>
         /\ Len(fifo) >= 1 =>
              /\ fifo' = Tail(fifo)
              /\ data'[1] = Head(fifo) % WordMod
              /\ ret' = "true"
         /\ (fifo' # fifo) <=> (ret' = "true")]_vars

(* C6, amended: with rp2pio, an update() made while n >= 1 words are        *)
(* pending takes exactly the oldest word, stores it as the current sample   *)
(* and runs the edge detector; it returns True unless an invoked handler    *)
(* raises, and leaves n - 1 pending either way.  A poll takes a word        *)
(* exactly when it returns True or ends by a handler raising, so the number *)
(* of words taken equals the number of polls that did not return False.     *)
C6_DrainOne ==
    [][(PollStep /\ rp2pio /\ ~deinited) =>
         /\ Len(fifo) >= 1 =>
              /\ fifo' = Tail(fifo)
              /\ Len(fifo') = Len(fifo) - 1
              /\ data'[1] = Head(fifo) % WordMod
              /\ ret' \in {"true", "raised"}
              /\ ret' = "raised" => calls' # <<>>
              /\ ret' = "true" =>
                   /\ Increasing(calls')
                   /\ Indices(calls', "press") =
                        IF callable(on_press) THEN Pressed(data'[1], data[2]) ELSE {}
                   /\ Indices(calls', "release") =
                        IF callable(on_release) THEN Released(data'[1], data[2]) ELSE {}
         /\ (fifo' # fifo) <=> (ret' \in {"true", "raised"})
         /\ (fifo' = fifo) <=> (ret' = "false")]_vars

\* A poll made with two different words pending that returned True: it took
\* the older one, dispatched on it and left the newer one pending.
C6_Witness ==
    /\ Polled /\ rp2pio
    /\ trace[1] = Ev("in_waiting", 2)
    /\ Len(fifo) = 1
    /\ data[1] # fifo[1] % WordMod
    /\ trace[2] = Ev("readinto", data[1])
    /\ calls # <<>>

(* C7, as claimed: on a driver that has not been deinitialised, update()    *)
(* returns True exactly when it acquired a fresh sample and ran the edge    *)
(* detector, and False otherwise; with digitalio every call returns True.   *)
C7_AsClaimed ==
    (last = "update" /\ ~deinited) =>
        /\ Fresh(trace) <=> ret = "true"
        /\ ~Fresh(trace) <=> ret = "false"
        /\ ~rp2pio => ret = "true"

(* C7, amended: on a driver that has not been deinitialised, update()       *)
(* returns True exactly when it acquired a fresh sample and the edge        *)
(* detector ran to its end (no invoked handler raised, the previous sample  *)
(* was stored); it returns False exactly when it acquired nothing, which    *)
(* happens only with rp2pio and no word pending; with digitalio every call  *)
(* acquires a sample and so never returns False.                            *)
C7_ReturnValue ==
    (last = "update" /\ ~deinited) =>
        /\ ret \in {"true", "false", "raised"}
        /\ ret = "true" <=> (Fresh(trace) /\ data[2] = data[1])
        /\ ret = "raised" <=> (Fresh(trace) /\ data[2] # data[1])
        /\ ret = "raised" => calls # <<>>
        /\ ret = "false" <=> ~Fresh(trace)
        /\ ret = "false" => (rp2pio /\ trace = <<Ev("in_waiting", 0)>> /\ calls = <<>>)
        /\ ~rp2pio => (Fresh(trace) /\ ret # "false")

\* A digitalio poll that ended by a handler raising after another handler had
\* been invoked: it returned neither True nor False.
C7_Witness ==
    /\ last = "update" /\ ~deinited /\ ~rp2pio
    /\ ret = "raised"
    /\ Len(calls) = 2
    /\ Fresh(trace)

(* C8: an update() with digitalio, on lines that have not been released,    *)
(* reads the data line exactly count times, and bit k of the current sample *)
(* it leaves is 1 exactly when the k-th read (from 0) was high; the sample  *)
(* is the word of those reads alone, whatever the current sample was        *)
(* before.                                                                  *)
C8_BitBangSample ==
    (last = "update" /\ ~rp2pio /\ ~deinited) =>
        /\ Len(Reads(trace)) = count
        /\ \A k \in 0..(count - 1) :
               Bit(data[1], k) = 1 <=> Reads(trace)[k + 1].val = 1
        /\ data[1] = WordOfReads(Reads(trace), 0)

\* A 16-key poll that found bits 0 and 7 in the current sample and read only
\* the last pulse high.
C8_Witness ==
    /\ last = "update" /\ ~rp2pio /\ ~deinited
    /\ count = 16
    /\ entry[1] = 2 ^ 0 + 2 ^ 7
    /\ Reads(trace)[16].val = 1
    /\ data[1] = 2 ^ 15

(* C9: in an update() with digitalio, for either polarity, the first        *)
(* operation drives the clock to the idle level (the polarity flag), every  *)
(* read of the data line is made with the clock at the active level (the    *)
(* complement), the clock is driven to idle between any two reads, and each *)
(* of the count reads sits in its own idle, active, read, idle sequence.    *)
C9_ClockPulses ==
    (last = "update" /\ ~rp2pio /\ ~deinited) =>
        /\ trace[1] = Ev("scl", Level(invert_clk))
        /\ Len(Reads(trace)) = count
        /\ \A p \in 1..Len(trace) :
               trace[p].op = "sdo" =>
                   /\ LineAfter(trace, p - 1, scl) = ~invert_clk
                   /\ p >= 3 /\ p < Len(trace)
                   /\ trace[p - 2] = Ev("scl", Level(invert_clk))
                   /\ trace[p - 1] = Ev("scl", Level(~invert_clk))
                   /\ trace[p + 1] = Ev("scl", Level(invert_clk))
        /\ \A p, q \in 1..Len(trace) :
               (p < q /\ trace[p].op = "sdo" /\ trace[q].op = "sdo") =>
                   \E m \in (p + 1)..(q - 1) : trace[m] = Ev("scl", Level(invert_clk))

\* A 16-key poll with the inverted clock that read at least one pulse high.
C9_Witness ==
    /\ last = "update" /\ ~rp2pio /\ ~deinited
    /\ invert_clk
    /\ count = 16
    /\ Len(Reads(trace)) = 16
    /\ \E p \in 1..Len(trace) : trace[p] = Ev("sdo", 1)

(* C10: with digitalio, for either polarity, every update() on unreleased   *)
(* lines ends by driving the clock to the active level (the complement of   *)
(* the polarity flag) and begins by driving it to idle, and nothing but     *)
(* update() moves the clock: between two polls it rests at the active level. *)
C10_RestsActive ==
    [][(~rp2pio /\ ~deinited) =>
         IF PollStep
         THEN /\ scl' = ~invert_clk
              /\ trace'[Len(trace')] = Ev("scl", Level(~invert_clk))
              /\ trace'[1] = Ev("scl", Level(invert_clk))
         ELSE scl' = scl]_vars

\* Between two polls, after a handler was assigned: the clock of an
\* active-high device still rests high, where the last poll left it.
C10_Witness ==
    /\ ~rp2pio /\ ~deinited
    /\ ~invert_clk
    /\ last = "set"
    /\ data[1] # 0
    /\ scl = TRUE

-----------------------------------------------------------------------------
(* C11: in every state the current and the previous sample are exactly     *)
(* count bits wide: every bit at index count or above is 0 in both, so in  *)
(* 8-key mode both are below 256, with either backend and whatever word    *)
(* the backend delivered.  The rp2pio branch stores the delivered          *)
(* half-word unmasked, and an 8-pulse word arrives in its upper byte.      *)
C11_AsClaimed ==
    /\ data[1] < 2 ^ count
    /\ data[2] < 2 ^ count

-----------------------------------------------------------------------------
(* C12: in every state, for every index i below the channel count the      *)
(* channel accessor returns true exactly when bit i of the value of the    *)
(* data property is 1; for every k >= 0 the accessor at count + k returns  *)
(* what it returns at k, and the bit it addresses is one of the channels,  *)
(* so that an index beyond the last channel is no error.                   *)
C12_ChannelAccessor ==
    /\ \A i \in 0..(count - 1) : GetItem(i) = (Bit(DataProperty, i) = 1)
    /\ \A k \in 0..MaxWrap :
          /\ GetItem(count + k) = GetItem(k)
          /\ GetItemIndex(count + k) \in 0..(count - 1)

\* Channel 7 is touched and channel 0 is not, as seen at the indices
\* themselves and one channel count further on.
C12_Witness ==
    /\ GetItem(7) /\ GetItem(count + 7)
    /\ ~GetItem(0) /\ ~GetItem(count)
    /\ DataProperty = 128

-----------------------------------------------------------------------------
(* C13: the channel count accessor returns 8 for a driver in 8-key mode    *)
(* and 16 for a driver in 16-key mode, which is the default mode, and no   *)
(* poll, handler assignment, teardown or other step changes what it        *)
(* returns.                                                                *)
C13_ChannelCount ==
    /\ [](LenOp = IF mode = KEY_8 THEN 8 ELSE 16)
    /\ [](mode = DefaultMode => LenOp = 16)
    /\ [][LenOp' = LenOp /\ mode' = mode]_vars

\* An 8-key driver that has had a handler assigned, was torn down and was
\* polled after that still answers 8.
C13_Witness ==
    /\ mode = KEY_8
    /\ LenOp = 8
    /\ callable(on_press)
    /\ deinited
    /\ last = "update"

-----------------------------------------------------------------------------
(* C14: once deinit() has been called, no later call of the host makes the *)
(* driver attempt an operation on the clock line, the data line or the     *)
(* state machine: no write, read, in_waiting query, readinto or further    *)
(* release.  update() and deinit() check nothing before they reach for     *)
(* their collaborators.                                                    *)
C14_AsClaimed == [][deinited => trace' = <<>>]_vars

-----------------------------------------------------------------------------
(* C15: with the rp2pio backend and either value of invert_clk, the idle   *)
(* level built into the PIO program is the level update() idles the clock  *)
(* at when it clocks the device itself (invert_clk), the active level is   *)
(* the level it pulses to (not invert_clk), the two levels differ, and     *)
(* every pass of the bit loop drives the clock line to the active level.   *)
(* The program is built with clk_on = 0 for both polarities.               *)
C15_AsClaimed ==
    rp2pio =>
        /\ clk_off = Level(IdleLevel)
        /\ clk_on = Level(ActiveLevel)
        /\ clk_on # clk_off
        /\ last = "push" =>
              \A k \in 1..Len(trace) :
                  trace[k].op = "sdo" => trace[k - 2] = SclWrite(ActiveLevel)

-----------------------------------------------------------------------------
(* C16: each word of the PIO program is acquired in the pulse order of the *)
(* digitalio branch of update(): the program drives the clock to the       *)
(* active level count times, samples the data line once per pulse while    *)
(* the clock is at the active level, before it is back at idle, and the    *)
(* word update() receives is the word the digitalio branch assembles from  *)
(* the same sequence of data line values.  The program samples after it    *)
(* has set the clock back to clk_off, and its word is aligned to the top   *)
(* of the half-word.                                                       *)

C16_AsClaimed ==
    (rp2pio /\ last = "push") =>
        /\ Len(Reads(trace)) = count
        /\ Cardinality({k \in 1..Len(trace) : trace[k] = SclWrite(ActiveLevel)}) = count
        /\ \A k \in 1..Len(trace) :
              trace[k].op = "sdo" => LineAfter(trace, k, IdleLevel) = ActiveLevel
        /\ fifo[Len(fifo)] = BitBang(0, HighReads(trace)).word

-----------------------------------------------------------------------------
(* C17: from construction until the first update() that returns True, the  *)
(* current and the previous sample are both zero: the data property is 0   *)
(* and the channel accessor is false at every index, also after any number *)
(* of rp2pio polls that returned False; and the first update() that        *)
(* returns True invokes on_press only, once per bit set in its sample,     *)
(* never on_release.                                                       *)
C17_AsClaimed ==
    /\ [](~polled =>
            /\ data = <<0, 0>>
            /\ DataProperty = 0
            /\ \A i \in 0..(count - 1) : ~GetItem(i))
    /\ [][(~polled /\ polled') =>
            /\ Indices(calls', "release") = {}
            /\ callable(on_press) =>
                  Indices(calls', "press")
                      = {i \in 0..(count - 1) : Bit(data'[1], i) = 1}]_vars

(* C17, amended: until the first update() that returns True the previous   *)
(* sample is zero; the current sample is zero until an update() obtains a  *)
(* sample, so it stays zero over rp2pio polls that return False and over   *)
(* handler assignments, but an update() that a handler raised out of       *)
(* leaves its sample there; the first update() that returns True invokes   *)
(* on_press only, once per bit set in its sample if on_press is set, never *)
(* on_release.                                                             *)
C17_UntilFirstPoll ==
    /\ [](~polled => data[2] = 0)
    /\ [][(~polled /\ data[1] = 0 /\ ~(PollStep /\ Fresh(trace'))) =>
            /\ data'[1] = 0
            /\ \A i \in 0..(count - 1) : ~GetItem(i)']_vars
    /\ [][(~polled /\ polled') =>
            /\ Indices(calls', "release") = {}
            /\ Indices(calls', "press")
                  = IF callable(on_press)
                    THEN {i \in 0..(count - 1) : Bit(data'[1], i) = 1}
                    ELSE {}]_vars

\* No update() has returned True yet, the last one was left by a raising
\* on_press handler, and the sample it took is what the accessors show.
C17_Witness ==
    /\ ~polled
    /\ last = "update"
    /\ ret = "raised"
    /\ calls # <<>>
    /\ data[2] = 0
    /\ DataProperty # 0
    /\ GetItem(7)

-----------------------------------------------------------------------------
(* C18: for a host that has both handlers set from the start and whose     *)
(* handlers never raise, the invocations for each single channel alternate *)
(* between on_press and on_release and begin with on_press: an update()    *)
(* invokes on_press(i) only if the last invocation for i was on_release(i) *)
(* or there was none, invokes on_release(i) only if the last invocation    *)
(* for i was on_press(i), and invokes at most one handler per channel.     *)
C18_Alternation ==
    [][PollStep =>
        /\ Increasing(calls')
        /\ \A k \in 1..Len(calls') :
              IF calls'[k].kind = "press"
              THEN lastCall[calls'[k].index] \in {NoCall, "release"}
              ELSE lastCall[calls'[k].index] = "press"]_vars

\* An update() has just invoked on_press(0) and on_release(7), and those are
\* now the last invocations of the two channels.
C18_Witness ==
    /\ last = "update"
    /\ Len(calls) = 2
    /\ calls[1].kind = "press" /\ calls[1].index = 0
    /\ calls[2].kind = "release" /\ calls[2].index = 7
    /\ lastCall[0] = "press"
    /\ lastCall[7] = "release"

-----------------------------------------------------------------------------
(* C19: when a handler raises at bit i, update() ends by that exception    *)
(* with the current sample being the newly acquired one and the previous   *)
(* sample unchanged; it has invoked the handlers of the differing bits up  *)
(* to i, the raising one last, and none for a bit above i.  An update()    *)
(* that follows and returns True is dispatched against that unchanged      *)
(* previous sample: every invocation the failed call made before the one   *)
(* that raised is made again if its bit still differs from the previous    *)
(* sample.                                                                 *)
C19_HandlerRaises ==
    /\ [][(PollStep /\ ~deinited /\ ret' = "raised") =>
            /\ calls' # <<>>
            /\ Increasing(calls')
            /\ \A k \in 1..Len(calls') : calls'[k].raised = (k = Len(calls'))
            /\ IF rp2pio
               THEN data'[1] = Head(fifo) % WordMod
               ELSE data'[1] = WordOfReads(Reads(trace'), 0)
            /\ data'[2] = data[2]
            /\ Indices(calls', "press")
                  = IF callable(on_press)
                    THEN {j \in Pressed(data'[1], data[2]) :
                              j <= calls'[Len(calls')].index}
                    ELSE {}
            /\ Indices(calls', "release")
                  = IF callable(on_release)
                    THEN {j \in Released(data'[1], data[2]) :
                              j <= calls'[Len(calls')].index}
                    ELSE {}]_vars
    /\ [][(last = "update" /\ ret = "raised" /\ ~deinited
             /\ PollStep /\ ret' = "true") =>
            /\ data[2] = entry[2]
            /\ Indices(calls', "press")
                  = IF callable(on_press) THEN Pressed(data'[1], entry[2]) ELSE {}
            /\ Indices(calls', "release")
                  = IF callable(on_release) THEN Released(data'[1], entry[2]) ELSE {}
            /\ \A k \in 1..(Len(calls) - 1) :
                  Bit(data'[1], calls[k].index) # Bit(entry[2], calls[k].index)
                      => \E j \in 1..Len(calls') :
                            /\ calls'[j].kind = calls[k].kind
                            /\ calls'[j].index = calls[k].index]_vars

\* on_press(0) returned and on_press(7) raised: the current sample has bit
\* 15 set as well, for which no handler was invoked, and the previous sample
\* is still 0.
C19_Witness ==
    /\ last = "update" /\ ret = "raised" /\ ~deinited
    /\ Len(calls) = 2
    /\ calls[1].index = 0 /\ ~calls[1].raised
    /\ calls[2].index = 7 /\ calls[2].raised
    /\ Bit(data[1], 15) = 1
    /\ data[2] = 0

-----------------------------------------------------------------------------
(* C20: whenever update() invokes a handler, the current sample is already *)
(* the complete sample this call acquired and the previous sample is still *)
(* the one from before the call: the handler reads from the data property  *)
(* the value it has when update() has ended, the channel accessor at the   *)
(* handler's index is true inside on_press and false inside on_release.    *)
C20_HandlerView ==
    [][PollStep =>
        \A k \in 1..Len(calls') :
            /\ calls'[k].seen[1] = data'[1]
            /\ IF rp2pio
               THEN calls'[k].seen[1] = Head(fifo) % WordMod
               ELSE /\ Len(Reads(trace')) = count
                    /\ calls'[k].seen[1] = WordOfReads(Reads(trace'), 0)
            /\ calls'[k].seen[2] = data[2]
            /\ calls'[k].kind = "press"
                  => Bit(calls'[k].seen[1], calls'[k].index % count) = 1
            /\ calls'[k].kind = "release"
                  => Bit(calls'[k].seen[1], calls'[k].index % count) = 0]_vars

\* An update() that invoked on_press and then on_release and returned True:
\* both found the sample the data property shows now and the previous
\* sample the call started with, which has been replaced since.
C20_Witness ==
    /\ Polled /\ ~deinited
    /\ Len(calls) = 2
    /\ calls[1].kind = "press" /\ calls[2].kind = "release"
    /\ calls[1].seen = <<DataProperty, entry[2]>>
    /\ calls[2].seen = <<DataProperty, entry[2]>>
    /\ data[2] # entry[2]

=============================================================================
